---- MODULE Spec2Model ----
(***************************************************************************)
(* FastLeadFilter (app/services/fast_lead_filter.py): rule-based scoring,  *)
(* threshold filtering, lead construction and summary annotation.          *)
(*                                                                         *)
(* A Python str is modelled as a sequence of one-character strings, so     *)
(* that lower(), split(), slicing and the substring test `in` are computed *)
(* character by character.                                                 *)
(***************************************************************************)
EXTENDS Integers, Sequences, FiniteSets

\* Python's None, where a plain name (author, industry type) is expected
None == "None"

\* Python's None, where a str of characters is expected
NoneStr == << "None" >>

\* Python's None, where a dict or an object is expected
NoneObj == [is_none |-> TRUE]

\* no get_last_metrics call since the latest filter_posts call
Unread == [unread |-> TRUE]

\* the annotation of a post that has no "relevance_score" key
\* (post.get("relevance_score", 0) then yields 0)
Absent == -1

(***************************************************************************)
(* str operations                                                          *)
(***************************************************************************)
\* str.lower() on one character
Lower(c) ==
  CASE c = "A" -> "a"
    [] c = "B" -> "b"
    [] c = "C" -> "c"
    [] c = "D" -> "d"
    [] c = "E" -> "e"
    [] c = "F" -> "f"
    [] c = "G" -> "g"
    [] c = "H" -> "h"
    [] c = "I" -> "i"
    [] c = "J" -> "j"
    [] c = "K" -> "k"
    [] c = "L" -> "l"
    [] c = "M" -> "m"
    [] c = "N" -> "n"
    [] c = "O" -> "o"
    [] c = "P" -> "p"
    [] c = "Q" -> "q"
    [] c = "R" -> "r"
    [] c = "S" -> "s"
    [] c = "T" -> "t"
    [] c = "U" -> "u"
    [] c = "V" -> "v"
    [] c = "W" -> "w"
    [] c = "X" -> "x"
    [] c = "Y" -> "y"
    [] c = "Z" -> "z"
    [] OTHER -> c

\* str.lower()
LowerStr(s) == [i \in 1..Len(s) |-> Lower(s[i])]

Min(a, b) == IF a < b THEN a ELSE b

\* s[:n]
Take(s, n) == SubSeq(s, 1, Min(n, Len(s)))

\* `needle in text` on str: substring containment
Contains(needle, text) ==
  \E i \in 0..(Len(text) - Len(needle)) : SubSeq(text, i + 1, i + Len(needle)) = needle

\* the first whitespace-delimited word of s starting at position i (i is not a blank)
RECURSIVE WordEnd(_, _)
WordEnd(s, i) == IF i > Len(s) \/ s[i] = " " THEN i - 1 ELSE WordEnd(s, i + 1)

\* str.split(): whitespace-delimited words, runs of blanks collapse
RECURSIVE SplitFrom(_, _)
SplitFrom(s, i) ==
  IF i > Len(s) THEN << >>
  ELSE IF s[i] = " " THEN SplitFrom(s, i + 1)
  ELSE << SubSeq(s, i, WordEnd(s, i)) >> \o SplitFrom(s, WordEnd(s, i) + 1)

Split(s) == SplitFrom(s, 1)

\* sep.join(words)
RECURSIVE Join(_, _)
Join(words, sep) ==
  IF words = << >> THEN << >>
  ELSE IF Len(words) = 1 THEN words[1]
  ELSE words[1] \o sep \o Join(Tail(words), sep)

\* `x in list`
InList(x, list) == \E i \in 1..Len(list) : list[i] = x

(***************************************************************************)
(* String literals of the source                                          *)
(***************************************************************************)
\* struggle_indicators of _rule_based_filter
struggle_indicators ==
  << <<"s","t","r","u","g","g","l","i","n","g">>,
     <<"h","e","l","p">>,
     <<"c","a","n","'","t">>,
     <<"c","a","n","n","o","t">>,
     <<"c","a","n"," ","n","o","t">>,
     <<"t","r","o","u","b","l","e">>,
     <<"p","r","o","b","l","e","m">>,
     <<"i","s","s","u","e">>,
     <<"s","t","u","c","k">>,
     <<"f","r","u","s","t","r","a","t","e","d">>,
     <<"o","v","e","r","w","h","e","l","m","e","d">>,
     <<"d","e","s","p","e","r","a","t","e">>,
     <<"u","r","g","e","n","t">>,
     <<"f","a","i","l","i","n","g">>,
     <<"l","o","s","t">>,
     <<"l","o","s","i","n","g">>,
     <<"d","e","c","l","i","n","i","n","g">>,
     <<"f","i","r","s","t"," ","c","l","i","e","n","t">>,
     <<"f","i","r","s","t"," ","c","u","s","t","o","m","e","r">>,
     <<"n","o"," ","c","u","s","t","o","m","e","r","s">>,
     <<"n","o"," ","c","l","i","e","n","t","s">>,
     <<"g","e","t","t","i","n","g"," ","c","l","i","e","n","t","s">>,
     <<"c","u","s","t","o","m","e","r"," ","a","c","q","u","i","s","i","t","i","o","n">>,
     <<"l","e","a","d"," ","g","e","n","e","r","a","t","i","o","n">>,
     <<"n","e","e","d"," ","h","e","l","p">>,
     <<"l","o","o","k","i","n","g"," ","f","o","r">>,
     <<"h","o","w"," ","t","o">>,
     <<"w","h","a","t"," ","s","h","o","u","l","d">>,
     <<"a","n","y"," ","a","d","v","i","c","e">> >>

\* literal pieces of the summary f-strings
PostAbout == <<"P","o","s","t"," ","a","b","o","u","t"," ">>
Dash == <<" ","-"," ">>
Dots == <<".",".",".">>
Comma == <<","," ">>

(***************************************************************************)
(* Inputs: documents, problem descriptions, keyword tables                 *)
(***************************************************************************)
\* "Struggling to get my first client"
Title1 == <<"S","t","r","u","g","g","l","i","n","g"," ","t","o"," ","g","e","t"," ","m","y"," ","f","i","r","s","t"," ","c","l","i","e","n","t">>
\* "Any advice on getting clients?"
Content1 == <<"A","n","y"," ","a","d","v","i","c","e"," ","o","n"," ","g","e","t","t","i","n","g"," ","c","l","i","e","n","t","s","?">>
\* "How do I get my first client"
Title2 == <<"H","o","w"," ","d","o"," ","I"," ","g","e","t"," ","m","y"," ","f","i","r","s","t"," ","c","l","i","e","n","t">>
\* "Nice weather"
Title3 == <<"N","i","c","e"," ","w","e","a","t","h","e","r">>
\* "Need help "
TitleHead4 == <<"N","e","e","d"," ","h","e","l","p"," ">>
\* "Losing clients fast"
Title6 == <<"L","o","s","i","n","g"," ","c","l","i","e","n","t","s"," ","f","a","s","t">>
\* "help stuck customer"
Content6 == <<"h","e","l","p"," ","s","t","u","c","k"," ","c","u","s","t","o","m","e","r">>
\* "Help with clients"
Title7 == <<"H","e","l","p"," ","w","i","t","h"," ","c","l","i","e","n","t","s">>
\* "getting clients"
PD1 == <<"g","e","t","t","i","n","g"," ","c","l","i","e","n","t","s">>
\* "getting first client fast"
PD2 == <<"g","e","t","t","i","n","g"," ","f","i","r","s","t"," ","c","l","i","e","n","t"," ","f","a","s","t">>
\* "client"
KClient == <<"c","l","i","e","n","t">>
\* "customer"
KCustomer == <<"c","u","s","t","o","m","e","r">>
\* "clients"
KClients == <<"c","l","i","e","n","t","s">>
\* "Advice"
KAdvice == <<"A","d","v","i","c","e">>
\* "First"
KFirst == <<"F","i","r","s","t">>

\* a title longer than both title limits: "Need help xxxx..."
Title4 == TitleHead4 \o [i \in 1..95 |-> "x"]

DocIds == {"d1", "d2", "d3", "d4", "d5", "d6", "d7"}

\* The post dicts handed to filter_posts.  d5 has title None (slicing it and
\* .lower() raise), d7 has author None (Lead construction rejects it).
Doc ==
  [d \in DocIds |->
     CASE d = "d1" -> [title |-> Title1, content |-> Content1, subreddit |-> "r/a", permalink |-> "/1",
                       author |-> "u1", created_utc |-> 1, score |-> 1]
       [] d = "d2" -> [title |-> Title2, content |-> << >>, subreddit |-> "r/a", permalink |-> "/2",
                       author |-> "u2", created_utc |-> 2, score |-> 2]
       [] d = "d3" -> [title |-> Title3, content |-> << >>, subreddit |-> "r/b", permalink |-> "/3",
                       author |-> "u3", created_utc |-> 3, score |-> 3]
       [] d = "d4" -> [title |-> Title4, content |-> << >>, subreddit |-> "r/b", permalink |-> "/4",
                       author |-> "u4", created_utc |-> 4, score |-> 4]
       [] d = "d5" -> [title |-> NoneStr, content |-> Content6, subreddit |-> "r/c", permalink |-> "/5",
                       author |-> "u5", created_utc |-> 5, score |-> 5]
       [] d = "d6" -> [title |-> Title6, content |-> Content6, subreddit |-> "r/c", permalink |-> "/6",
                       author |-> "u6", created_utc |-> 6, score |-> 6]
       [] d = "d7" -> [title |-> Title7, content |-> << >>, subreddit |-> "r/c", permalink |-> "/7",
                       author |-> None, created_utc |-> 7, score |-> 7]]

\* business_mapping.BUSINESS_MAPPINGS[bt]["keywords"] as imported
InitialBusinessMappings == [agency |-> << KClient, KCustomer >>]

\* business_mapping.INDUSTRY_MAPPINGS[it]["keywords"]
INDUSTRY_MAPPINGS == [marketing |-> << KClients >>]

BusinessTypes == {"agency", "other"}
IndustryTypes == {None, "marketing"}
Problems == {PD1, PD2}

\* AIEnhancer.enhance_query(problem_description, business_type).keywords
EnhanceQuery(problem_description, business_type) ==
  IF problem_description = PD1 THEN << KAdvice >> ELSE << KFirst >>

\* ai_config["threshold"] values considered
Thresholds == {4, 5}

\* longest posts list handed to one filter_posts call
MaxPosts == 4

\* longest keyword list a BUSINESS_MAPPINGS entry may grow to
MaxKeywords == 4

\* the post lists handed to filter_posts: slices of the feeds
Feeds ==
  { << "d3", "d2", "d6", "d1", "d4", "d7" >>, << "d6", "d2", "d7" >>, << "d1", "d5" >> }

Windows(f) ==
  { SubSeq(f, w[1], w[1] + w[2] - 1) :
      w \in { v \in (1..Len(f)) \X (0..MaxPosts) : v[1] + v[2] - 1 <= Len(f) } }

PostLists == UNION { Windows(f) : f \in Feeds }

(***************************************************************************)
(* _rule_based_filter                                                      *)
(***************************************************************************)
\* weights of the four scoring loops
KeywordWeight == 3
StruggleWeight == 2
EnhancedWeight == 4
ProblemWordWeight == 1

\* minimum length (exclusive) of a problem word that earns the bonus
MinWordLen == 3

\* business_keywords after the lookup and the extend with the industry keywords
BusinessKeywords(maps, business_type, industry_type) ==
  LET business == IF business_type \in DOMAIN maps THEN maps[business_type] ELSE << >>
      industry == IF industry_type \in DOMAIN INDUSTRY_MAPPINGS
                  THEN INDUSTRY_MAPPINGS[industry_type] ELSE << >>
  IN  IF industry_type # None THEN business \o industry ELSE business

\* business_keywords is the table's own list when the business type is known,
\* so extend() writes into BUSINESS_MAPPINGS
ExtendMappings(maps, business_type, industry_type) ==
  IF business_type \in DOMAIN maps
  THEN [maps EXCEPT ![business_type] = BusinessKeywords(maps, business_type, industry_type)]
  ELSE maps

\* text = f"{title} {content}" of the lowercased fields
SearchText(post) == LowerStr(post.title) \o << " " >> \o LowerStr(post.content)

Range(list) == { list[i] : i \in 1..Len(list) }

\* every string the scoring loops look for in a text
Needles ==
  UNION { { LowerStr(k) : k \in Range(InitialBusinessMappings[b]) } :
            b \in DOMAIN InitialBusinessMappings }
  \cup UNION { { LowerStr(k) : k \in Range(INDUSTRY_MAPPINGS[i]) } : i \in DOMAIN INDUSTRY_MAPPINGS }
  \cup UNION { { LowerStr(k) : k \in Range(EnhanceQuery(p, b)) } : p \in Problems, b \in BusinessTypes }
  \cup Range(struggle_indicators)
  \cup UNION { Range(Split(LowerStr(p))) : p \in Problems }

\* the needles n with `n in text`, for the text of every document
Occurring == [d \in DocIds |-> { n \in Needles : Contains(n, SearchText(Doc[d])) }]

\* number of entries of list whose lowercased form occurs in the text of d
KeywordHits(list, d) ==
  Cardinality({ i \in 1..Len(list) : LowerStr(list[i]) \in Occurring[d] })

\* number of struggle indicators occurring in the text of d (compared as written)
StruggleHits(d) ==
  Cardinality({ i \in 1..Len(struggle_indicators) : struggle_indicators[i] \in Occurring[d] })

\* the lowercased words of the problem description
ProblemWords == [p \in Problems |-> Split(LowerStr(p))]

\* number of problem words longer than 3 characters occurring in the text of d
ProblemWordHits(problem_description, d) ==
  LET problem_words == ProblemWords[problem_description]
  IN  Cardinality({ i \in 1..Len(problem_words) :
                      Len(problem_words[i]) > MinWordLen /\ problem_words[i] \in Occurring[d] })

\* the score the loop body computes for post d
Score(d, business_keywords, enhanced_keywords, problem_description) ==
  LET all_keywords == business_keywords \o enhanced_keywords
  IN  KeywordWeight * KeywordHits(all_keywords, d)
      + StruggleWeight * StruggleHits(d)
      + EnhancedWeight * KeywordHits(enhanced_keywords, d)
      + ProblemWordWeight * ProblemWordHits(problem_description, d)

\* number of leading posts whose title is logged before the scoring loop
LogLimit == 5

\* the logging loop slices the title of the first five posts: a None title raises
LogRaises(posts) ==
  \E i \in 1..Min(LogLimit, Len(posts)) : Doc[posts[i]].title = NoneStr

\* .lower() on a None title or content raises
ScoreRaises(post) == post.title = NoneStr \/ post.content = NoneStr

\* index of the first post the scoring loop raises on, Len(posts) + 1 if none
RECURSIVE FirstRaise(_, _)
FirstRaise(posts, i) ==
  IF i > Len(posts) \/ ScoreRaises(Doc[posts[i]]) THEN i ELSE FirstRaise(posts, i + 1)

\* the comparison with the boundary excluded
MeetsThresholdStrict(score, threshold) == score > threshold

\* score >= self.ai_config["threshold"]
MeetsThreshold(score, threshold) == score >= threshold

\* filtered_posts before the sort: the posts meeting the threshold, in input order
RECURSIVE Retained(_, _, _)
Retained(posts, scores, threshold) ==
  IF posts = << >> THEN << >>
  ELSE (IF MeetsThreshold(scores[Head(posts)], threshold) THEN << Head(posts) >> ELSE << >>)
       \o Retained(Tail(posts), scores, threshold)

\* a descending sort that places x before the entries of equal key
RECURSIVE InsertDescUnstable(_, _, _)
InsertDescUnstable(sorted, x, key) ==
  IF sorted = << >> THEN << x >>
  ELSE IF key[Head(sorted)] > key[x]
       THEN << Head(sorted) >> \o InsertDescUnstable(Tail(sorted), x, key)
  ELSE << x >> \o sorted

\* position at which a stable descending sort places x in the sorted list:
\* after every entry whose key is >= the key of x
RECURSIVE InsertDesc(_, _, _)
InsertDesc(sorted, x, key) ==
  IF sorted = << >> THEN << x >>
  ELSE IF key[Head(sorted)] >= key[x] THEN << Head(sorted) >> \o InsertDesc(Tail(sorted), x, key)
  ELSE << x >> \o sorted

\* filtered_posts.sort(key=relevance_score, reverse=True): stable, descending
RECURSIVE SortDesc(_, _)
SortDesc(list, key) ==
  IF list = << >> THEN << >>
  ELSE InsertDesc(SortDesc(SubSeq(list, 1, Len(list) - 1), key), list[Len(list)], key)

\* _rule_based_filter: the table after the extend, the annotations written onto
\* the posts, and either the sorted survivors or the exception
RuleBasedFilter(posts, problem_description, business_type, industry_type, maps, annotations, thr, enhance_raises) ==
  LET business_keywords == BusinessKeywords(maps, business_type, industry_type)
      new_maps == IF industry_type # None
                  THEN ExtendMappings(maps, business_type, industry_type) ELSE maps
      enhanced_keywords == EnhanceQuery(problem_description, business_type)
      stop == IF LogRaises(posts) THEN 1 ELSE FirstRaise(posts, 1)
      scored == { posts[i] : i \in 1..(stop - 1) }
      new_annotations ==
        [d \in DocIds |->
           IF d \in scored
           THEN Score(d, business_keywords, enhanced_keywords, problem_description)
           ELSE annotations[d]]
  IN  IF enhance_raises
      THEN [raised |-> TRUE, maps |-> new_maps, annotations |-> annotations,
            filtered |-> << >>, business_keywords |-> business_keywords,
            enhanced_keywords |-> << >>]
      ELSE [raised |-> stop <= Len(posts), maps |-> new_maps, annotations |-> new_annotations,
            filtered |-> IF stop <= Len(posts) THEN << >>
                         ELSE SortDesc(Retained(posts, new_annotations, thr),
                                       new_annotations),
            business_keywords |-> business_keywords,
            enhanced_keywords |-> enhanced_keywords]

(***************************************************************************)
(* _create_leads_from_posts                                                *)
(***************************************************************************)
\* content is cut to this many characters in the snippet
SnippetLimit == 200

\* content[:200] + "..." if len(content) > 200 else content
Snippet(content) ==
  IF Len(content) > SnippetLimit THEN Take(content, SnippetLimit) \o Dots ELSE content

\* Lead(...) rejects a document with a field of the wrong type
LeadRaises(post) == post.author = None

\* a Lead that takes the platform score of the post for its relevance score
CreateLeadPlatformScore(d, annotations, business_type) ==
  [src |-> d,
   title |-> Doc[d].title,
   subreddit |-> Doc[d].subreddit,
   snippet |-> Snippet(Doc[d].content),
   permalink |-> Doc[d].permalink,
   author |-> Doc[d].author,
   created_utc |-> Doc[d].created_utc,
   score |-> Doc[d].score,
   matched_keywords |-> << >>,
   ai_relevance_score |-> Doc[d].score,
   urgency_level |-> "Medium",
   business_context |-> business_type,
   problem_category |-> "General",
   ai_summary |-> << >>]

\* the Lead built from one post; src names the post it was built from
CreateLead(d, annotations, business_type) ==
  [src |-> d,
   title |-> Doc[d].title,
   subreddit |-> Doc[d].subreddit,
   snippet |-> Snippet(Doc[d].content),
   permalink |-> Doc[d].permalink,
   author |-> Doc[d].author,
   created_utc |-> Doc[d].created_utc,
   score |-> Doc[d].score,
   matched_keywords |-> << >>,
   ai_relevance_score |-> IF annotations[d] = Absent THEN 0 ELSE annotations[d],
   urgency_level |-> "Medium",
   business_context |-> business_type,
   problem_category |-> "General",
   ai_summary |-> << >>]

\* the loop of _create_leads_from_posts: a post whose Lead raises is skipped
RECURSIVE CreateLeadsFromPosts(_, _, _)
CreateLeadsFromPosts(posts, annotations, business_type) ==
  IF posts = << >> THEN << >>
  ELSE (IF LeadRaises(Doc[Head(posts)]) THEN << >>
        ELSE << CreateLead(Head(posts), annotations, business_type) >>)
       \o CreateLeadsFromPosts(Tail(posts), annotations, business_type)

(***************************************************************************)
(* _add_simple_summaries                                                   *)
(***************************************************************************)
\* title characters kept by the summary, and by the fallback summary
TitleLimit == 80
FallbackTitleLimit == 100

\* the comprehension with `word in title`: substring of a title word
RECURSIVE MatchingWordsSubstring(_, _)
MatchingWordsSubstring(problem_words, title_words) ==
  IF problem_words = << >> THEN << >>
  ELSE (IF \E j \in 1..Len(title_words) : Contains(Head(problem_words), title_words[j])
        THEN << Head(problem_words) >> ELSE << >>)
       \o MatchingWordsSubstring(Tail(problem_words), title_words)

\* [word for word in problem_words if word in title_words]
RECURSIVE MatchingWords(_, _)
MatchingWords(problem_words, title_words) ==
  IF problem_words = << >> THEN << >>
  ELSE (IF InList(Head(problem_words), title_words) THEN << Head(problem_words) >> ELSE << >>)
       \o MatchingWords(Tail(problem_words), title_words)

\* the summary computed in the try block
SimpleSummary(title, problem_description) ==
  LET title_words == Split(LowerStr(title))
      problem_words == Split(LowerStr(problem_description))
      matching_words == MatchingWords(problem_words, title_words)
  IN  IF matching_words # << >>
      THEN PostAbout \o Join(matching_words, Comma) \o Dash \o Take(title, TitleLimit) \o Dots
      ELSE PostAbout \o LowerStr(problem_description) \o Dash \o Take(title, TitleLimit) \o Dots

\* the summary written by the except block
FallbackSummary(title, problem_description) ==
  PostAbout \o LowerStr(problem_description) \o Dash \o Take(title, FallbackTitleLimit) \o Dots

\* both summaries for every title and problem description, tabulated
Titles == { Doc[d].title : d \in DocIds }

SummaryOf == [t \in Titles |-> [p \in Problems |-> SimpleSummary(t, p)]]

FallbackSummaryOf == [t \in Titles |-> [p \in Problems |-> FallbackSummary(t, p)]]

\* an except block that rewrites only the leads the try block had not reached
FallbackLeadsPerItem(leads, problem_description) ==
  [i \in 1..Len(leads) |->
     IF leads[i].ai_summary = << >>
     THEN [leads[i] EXCEPT !.ai_summary = FallbackSummaryOf[leads[i].title][problem_description]]
     ELSE leads[i]]

\* the leads the except block rewrites, given the leads as the try block left them
FallbackLeads(leads, problem_description) ==
  [i \in 1..Len(leads) |->
     [leads[i] EXCEPT !.ai_summary = FallbackSummaryOf[leads[i].title][problem_description]]]

\* _add_simple_summaries.  raise_at = 0: the try block completes.  raise_at = k:
\* the try block raises while processing lead k, after leads 1..k-1 were written.
\* fallback_raises: the except block raises too, and the exception leaves the method.
AddSimpleSummaries(leads, problem_description, raise_at, fallback_raises) ==
  LET stop == IF raise_at = 0 \/ raise_at > Len(leads) THEN Len(leads) + 1 ELSE raise_at
      tried == [i \in 1..Len(leads) |->
                  IF i < stop
                  THEN [leads[i] EXCEPT !.ai_summary =
                                          SummaryOf[leads[i].title][problem_description]]
                  ELSE leads[i]]
  IN  IF stop > Len(leads) THEN [raised |-> FALSE, fell_back |-> FALSE, leads |-> tried]
      ELSE IF fallback_raises THEN [raised |-> TRUE, fell_back |-> TRUE, leads |-> << >>]
      ELSE [raised |-> FALSE, fell_back |-> TRUE,
            leads |-> FallbackLeads(tried, problem_description)]

(***************************************************************************)
(* filter_posts, get_last_metrics                                          *)
(***************************************************************************)
\* dict.update
Update(m, u) == [k \in DOMAIN m \cup DOMAIN u |-> IF k \in DOMAIN u THEN u[k] ELSE m[k]]

\* the start of filter_posts updating the previous dict instead of replacing it
ResetMetricsMerge(old, posts) ==
  LET fresh == [posts_analyzed |-> Len(posts), posts_filtered |-> 0, summaries_generated |-> 0,
                tokens_used |-> 0, cost |-> 0, filter_method |-> "rule_based",
                summary_method |-> "openai"]
  IN  IF old = NoneObj THEN fresh ELSE Update(old, fresh)

\* the record assigned to self._last_metrics at the start of filter_posts
ResetMetrics(old, posts) ==
  [posts_analyzed |-> Len(posts), posts_filtered |-> 0, summaries_generated |-> 0,
   tokens_used |-> 0, cost |-> 0, filter_method |-> "rule_based", summary_method |-> "openai"]

\* an empty dict
EmptyDict == [k \in {} |-> 0]

\* an except clause that drops the metrics
OnErrorNoMetrics(metrics) == [leads |-> << >>, metrics |-> EmptyDict]

\* the except clause of filter_posts: return [], self._last_metrics or {}
OnError(metrics) ==
  [leads |-> << >>,
   metrics |-> IF metrics = NoneObj \/ metrics = EmptyDict THEN EmptyDict ELSE metrics]

\* the exceptions injected into one call: enhance_query raises; the try block of
\* _add_simple_summaries raises at lead annotate_at (0: not at all); its except
\* block raises as well
NoFault == [enhance |-> FALSE, annotate_at |-> 0, fallback |-> FALSE]

Faults ==
  { NoFault, [enhance |-> TRUE, annotate_at |-> 0, fallback |-> FALSE] }
  \cup [enhance : {FALSE}, annotate_at : 1..MaxPosts, fallback : BOOLEAN]

\* the whole of filter_posts as a function of its arguments and the state it reads
RunFilterPosts(posts, problem_description, business_type, industry_type, fault, maps, annotations, old_metrics, thr) ==
  LET metrics == ResetMetrics(old_metrics, posts)
      rf == RuleBasedFilter(posts, problem_description, business_type, industry_type,
                            maps, annotations, thr, fault.enhance)
      built == CreateLeadsFromPosts(rf.filtered, rf.annotations, business_type)
      sm == IF built # << >>
            THEN AddSimpleSummaries(built, problem_description, fault.annotate_at, fault.fallback)
            ELSE [raised |-> FALSE, fell_back |-> FALSE, leads |-> built]
      failed == rf.raised \/ sm.raised
      updated == Update(metrics, [posts_filtered |-> Len(rf.filtered),
                                  results_returned |-> Len(sm.leads)])
  IN  [failed |-> failed,
       maps |-> rf.maps,
       annotations |-> rf.annotations,
       last_metrics |-> IF failed THEN metrics ELSE updated,
       returned |-> IF failed THEN OnError(metrics)
                    ELSE [leads |-> sm.leads, metrics |-> updated],
       filtered |-> rf.filtered,
       business_keywords |-> rf.business_keywords,
       enhanced_keywords |-> rf.enhanced_keywords,
       score_raised |-> (~fault.enhance) /\ rf.raised,
       fell_back |-> (~rf.raised) /\ sm.fell_back,
       raised_at |-> IF (~rf.raised) /\ sm.fell_back THEN fault.annotate_at ELSE 0]

VARIABLES
  BUSINESS_MAPPINGS,   \* the keyword lists of business_mapping.BUSINESS_MAPPINGS
  relevance_score,     \* post["relevance_score"] of every document, Absent if never set
  last_metrics,        \* self._last_metrics
  threshold,           \* self.ai_config["threshold"]
  ret,                 \* what the latest filter_posts call returned, NoneObj before any
  call,                \* the arguments and the course of the latest filter_posts call
  observed,            \* what the latest get_last_metrics call returned, Unread if none since
  kept                 \* a lead of an earlier call the caller still holds, with the score
                       \* its post carried when that call returned; NoneObj if none

vars == << BUSINESS_MAPPINGS, relevance_score, last_metrics, threshold, ret, call, observed, kept >>

Init ==
  /\ BUSINESS_MAPPINGS = InitialBusinessMappings
  /\ relevance_score = [d \in DocIds |-> Absent]
  /\ last_metrics = NoneObj
  /\ threshold \in Thresholds
  /\ ret = NoneObj
  /\ call = NoneObj
  /\ observed = Unread
  /\ kept = NoneObj

\* one filter_posts call.  The caller releases the post dicts it does not pass
\* in again (a later fetch delivers them as fresh dicts without annotation);
\* keep: the caller holds on to the first lead of the previous result.
FilterPosts(posts, problem_description, business_type, industry_type, fault, keep) ==
  /\ Len(BusinessKeywords(BUSINESS_MAPPINGS, business_type, industry_type)) <= MaxKeywords
  /\ \E r \in { RunFilterPosts(posts, problem_description, business_type, industry_type, fault,
                               BUSINESS_MAPPINGS, relevance_score, last_metrics, threshold) } :
       /\ BUSINESS_MAPPINGS' = r.maps
       /\ relevance_score' = [d \in DocIds |->
                                IF d \in Range(posts) THEN r.annotations[d] ELSE Absent]
       /\ last_metrics' = r.last_metrics
       /\ ret' = r.returned
       /\ call' = [posts |-> posts, problem_description |-> problem_description,
                   business_type |-> business_type, industry_type |-> industry_type,
                   failed |-> r.failed, score_raised |-> r.score_raised,
                   fell_back |-> r.fell_back, raised_at |-> r.raised_at,
                   filtered |-> r.filtered,
                   business_keywords |-> r.business_keywords,
                   enhanced_keywords |-> r.enhanced_keywords]
  /\ observed' = Unread
  /\ kept' = IF keep /\ ret # NoneObj /\ ret.leads # << >>
             THEN [lead |-> ret.leads[1], scored |-> relevance_score[ret.leads[1].src]]
             ELSE kept
  /\ UNCHANGED threshold

\* get_last_metrics
GetLastMetrics ==
  /\ observed' = last_metrics
  /\ UNCHANGED << BUSINESS_MAPPINGS, relevance_score, last_metrics, threshold, ret, call, kept >>

\* the filter_posts calls of a caller that meets no injected exception, on slices
\* of the feeds
Call ==
  \E posts \in PostLists, problem_description \in Problems, business_type \in BusinessTypes,
     industry_type \in IndustryTypes :
       FilterPosts(posts, problem_description, business_type, industry_type, NoFault, FALSE)

Next == Call

Spec == Init /\ [][Next]_vars

\* the calls of a caller that meets injected exceptions and reads the metrics, on
\* slices of a short feed
FaultFeed == << "d4", "d1", "d5" >>

CallWithFaults ==
  \E posts \in Windows(FaultFeed), problem_description \in Problems,
     industry_type \in IndustryTypes, fault \in Faults :
       FilterPosts(posts, problem_description, "agency", industry_type, fault, FALSE)

NextFaults == CallWithFaults \/ GetLastMetrics

SpecFaults == Init /\ [][NextFaults]_vars

\* the calls of a caller that may hold on to a lead of the previous result
KeepFeed == << "d1", "d2" >>

CallAndKeep ==
  \E posts \in Windows(KeepFeed), problem_description \in Problems,
     business_type \in BusinessTypes, industry_type \in IndustryTypes, keep \in BOOLEAN :
       FilterPosts(posts, problem_description, business_type, industry_type, NoFault, keep)

NextKeep == CallAndKeep

SpecKeep == Init /\ [][NextKeep]_vars

(***************************************************************************)
(* Properties                                                              *)
(***************************************************************************)
Succeeded == call # NoneObj /\ ~call.failed

\* number of occurrences of x in list
Count(x, list) == Cardinality({ i \in 1..Len(list) : list[i] = x })

\* position of the first occurrence of x in list
IndexOf(x, list) == CHOOSE i \in 1..Len(list) : list[i] = x /\ \A j \in 1..(i - 1) : list[j] # x

\* the entries of list at the positions in idx, in list order
RECURSIVE PickInOrder(_, _, _)
PickInOrder(list, idx, i) ==
  IF i > Len(list) THEN << >>
  ELSE (IF i \in idx THEN << list[i] >> ELSE << >>) \o PickInOrder(list, idx, i + 1)

\* C1: after a call that did not fail, every retained post has relevance_score >=
\* threshold, and every post passed in is retained exactly as often as it was
\* passed in if its relevance_score >= threshold, and not at all otherwise.
C1_FilterSoundComplete ==
  Succeeded =>
    /\ \A i \in 1..Len(call.filtered) : relevance_score[call.filtered[i]] >= threshold
    /\ \A d \in Range(call.posts) :
         Count(d, call.filtered) =
           IF relevance_score[d] >= threshold THEN Count(d, call.posts) ELSE 0

\* a call that retained a post scoring exactly the threshold and dropped another
C1_Witness ==
  /\ Succeeded
  /\ \E d \in Range(call.filtered) : relevance_score[d] = threshold
  /\ \E d \in Range(call.posts) : relevance_score[d] < threshold /\ Count(d, call.filtered) = 0

\* C2: the retained posts are in descending relevance_score order, and two retained
\* posts of equal relevance_score are in the order they had in the input list.
C2_SortedStable ==
  Succeeded =>
    \A i, j \in 1..Len(call.filtered) :
      i < j =>
        /\ relevance_score[call.filtered[i]] >= relevance_score[call.filtered[j]]
        /\ relevance_score[call.filtered[i]] = relevance_score[call.filtered[j]]
             => IndexOf(call.filtered[i], call.posts) < IndexOf(call.filtered[j], call.posts)

\* as in the example [2, 8, 5, 5, 1]: a post was dropped, two retained posts tie, and
\* a higher-scoring post that came after them in the input precedes them in the output
C2_Witness ==
  /\ Succeeded
  /\ Len(call.filtered) < Len(call.posts)
  /\ \E i, j, k \in 1..Len(call.filtered) :
       /\ i < j /\ j < k
       /\ relevance_score[call.filtered[i]] > relevance_score[call.filtered[j]]
       /\ relevance_score[call.filtered[j]] = relevance_score[call.filtered[k]]
       /\ call.filtered[j] # call.filtered[k]
       /\ IndexOf(call.filtered[i], call.posts) > IndexOf(call.filtered[k], call.posts)

\* C3: a call leaves the category keyword tables unchanged, and the leads of a call
\* that did not fail are those of a first call with the same arguments.
C3_StatelessAcrossCalls ==
  /\ BUSINESS_MAPPINGS = InitialBusinessMappings
  /\ Succeeded =>
       ret.leads =
         RunFilterPosts(call.posts, call.problem_description, call.business_type,
                        call.industry_type, NoFault, InitialBusinessMappings,
                        [d \in DocIds |-> Absent], NoneObj, threshold).returned.leads

\* C4: a call in which a step raised returns an empty lead list and the metrics
\* recorded at its start: the number of posts passed in, nothing filtered, no
\* result count; these are the metrics kept in the last-metrics slot.
C4_FailureReturnsEmpty ==
  (call # NoneObj /\ call.failed) =>
    /\ ret.leads = << >>
    /\ ret.metrics = last_metrics
    /\ ret.metrics.posts_analyzed = Len(call.posts)
    /\ ret.metrics.posts_filtered = 0
    /\ "results_returned" \notin DOMAIN ret.metrics

\* a call of several posts in which the summaries and then their fallback raised
C4_Witness ==
  /\ call # NoneObj
  /\ call.failed
  /\ call.fell_back
  /\ Len(call.posts) >= 2

\* C5: a call returns a lead, in filtered order, for every post passed in that is
\* well formed and whose relevance score meets the threshold, whatever malformed
\* posts are passed in with it.
C5_MalformedSkipped ==
  call # NoneObj =>
    LET good == { d \in DocIds : ~ScoreRaises(Doc[d]) /\ ~LeadRaises(Doc[d]) }
        scores == [d \in DocIds |->
                     IF d \in good
                     THEN Score(d, call.business_keywords,
                                EnhanceQuery(call.problem_description, call.business_type),
                                call.problem_description)
                     ELSE Absent]
        expected == SortDesc(Retained(call.posts, scores, threshold), scores)
    IN  [i \in 1..Len(ret.leads) |-> ret.leads[i].src] = expected

\* C6: get_last_metrics returns None before any call, and afterwards exactly the
\* metrics of the latest call: its number of posts, and either the counts of a
\* completed call or the untouched start values of a failed one, with no other key.
C6_LastMetricsOfLatestCall ==
  observed # Unread =>
    observed =
      IF call = NoneObj THEN NoneObj
      ELSE IF call.failed
      THEN [posts_analyzed |-> Len(call.posts), posts_filtered |-> 0,
            summaries_generated |-> 0, tokens_used |-> 0, cost |-> 0,
            filter_method |-> "rule_based", summary_method |-> "openai"]
      ELSE [posts_analyzed |-> Len(call.posts), posts_filtered |-> Len(call.filtered),
            summaries_generated |-> 0, tokens_used |-> 0, cost |-> 0,
            filter_method |-> "rule_based", summary_method |-> "openai",
            results_returned |-> Len(ret.leads)]

\* get_last_metrics read after a failed call of some posts
C6_Witness ==
  /\ observed # Unread
  /\ call # NoneObj
  /\ call.failed
  /\ Len(call.posts) >= 1
  /\ observed.posts_analyzed = Len(call.posts)

\* C7: the relevance_score written onto a post is 3 per category keyword found
\* (the enhanced keywords not among them) + 2 per struggle indicator found + 4 per
\* enhanced keyword found + 1 per problem word longer than 3 characters found.
C7_ScoreFormula ==
  Succeeded =>
    \A d \in Range(call.posts) :
      relevance_score[d] =
        3 * KeywordHits(call.business_keywords, d)
        + 2 * StruggleHits(d)
        + 4 * KeywordHits(call.enhanced_keywords, d)
        + 1 * ProblemWordHits(call.problem_description, d)

\* C8: when the summaries raised at some lead and the call still returned leads,
\* every returned lead carries the fallback summary with the title cut to 100
\* characters, also the leads summarised before the exception.
C8_BatchWideFallback ==
  (call # NoneObj /\ call.fell_back /\ ~call.failed) =>
    \A i \in 1..Len(ret.leads) :
      ret.leads[i].ai_summary =
        PostAbout \o LowerStr(call.problem_description) \o Dash
        \o Take(ret.leads[i].title, 100) \o Dots

\* the summaries raised at the second lead or later, and a returned lead has a
\* title longer than 100 characters
C8_Witness ==
  /\ call # NoneObj
  /\ call.fell_back
  /\ ~call.failed
  /\ call.raised_at >= 2
  /\ Len(ret.leads) >= 2
  /\ \E i \in 1..Len(ret.leads) : Len(ret.leads[i].title) > 100

\* C9: when the summaries did not raise, the summary of every returned lead is
\* "Post about M - T..." with T the first 80 characters of the title and M the
\* lowercased problem words equal to a lowercased title word, in problem order and
\* joined by ", ", or the lowercased problem description if there is none; the
\* summary contains T.
C9_SummaryForm ==
  (call # NoneObj /\ ~call.failed /\ ~call.fell_back) =>
    \A i \in 1..Len(ret.leads) :
      LET title_words == Split(LowerStr(ret.leads[i].title))
          problem_words == Split(LowerStr(call.problem_description))
          idx == { k \in 1..Len(problem_words) :
                     \E j \in 1..Len(title_words) : title_words[j] = problem_words[k] }
          M == IF idx = {} THEN LowerStr(call.problem_description)
               ELSE Join(PickInOrder(problem_words, idx, 1), Comma)
          T == Take(ret.leads[i].title, 80)
      IN  /\ ret.leads[i].ai_summary = PostAbout \o M \o Dash \o T \o Dots
          /\ Contains(T, ret.leads[i].ai_summary)

\* the example: title "How do I get my first client", problem description
\* "getting first client fast", summary "Post about first, client - How do I get my
\* first client..."; and a lead whose title is longer than 80 characters
C9_Witness ==
  /\ call # NoneObj /\ ~call.failed /\ ~call.fell_back
  /\ call.problem_description = PD2
  /\ \E i \in 1..Len(ret.leads) :
       /\ ret.leads[i].title = Title2
       /\ ret.leads[i].ai_summary = <<"P","o","s","t"," ","a","b","o","u","t"," ","f","i","r","s","t",","," ","c","l","i","e","n","t"," ","-"," ","H","o","w"," ","d","o"," ","I"," ","g","e","t"," ","m","y"," ","f","i","r","s","t"," ","c","l","i","e","n","t",".",".",".">>
  /\ \E i \in 1..Len(ret.leads) : Len(ret.leads[i].title) > 80

\* C10: every returned lead carries the relevance score its post was given in that
\* call, and a lead the caller still holds from an earlier call carries the score
\* its post had when that call returned, whatever later calls wrote onto the post.
C10_LeadScoreFixed ==
  /\ Succeeded =>
       \A i \in 1..Len(ret.leads) :
         ret.leads[i].ai_relevance_score = relevance_score[ret.leads[i].src]
  /\ kept # NoneObj => kept.lead.ai_relevance_score = kept.scored

\* the post of a held lead was passed in again and now carries another score
C10_Witness ==
  /\ kept # NoneObj
  /\ Succeeded
  /\ kept.lead.src \in Range(call.posts)
  /\ relevance_score[kept.lead.src] # kept.lead.ai_relevance_score

====
